---- MODULE Spec2Model ----
(***************************************************************************)
(* Donation ledger of the kindnesshome backend: campaigns, donations and   *)
(* the request handlers that settle donations against a campaign.          *)
(*                                                                         *)
(* Money is held in cents (Numeric(_, 2) columns); matching_ratio is held  *)
(* in hundredths (Numeric(3, 2)).  The fees of a donation object that is   *)
(* not stored yet are exact Decimals, held in thousandths of a cent; the   *)
(* insert rounds them to cents.  A nullable column is Null or Some(v).     *)
(* Every request handler runs in its own SQLAlchemy session: it loads rows *)
(* into the session, changes the loaded objects in memory, and commit()    *)
(* flushes the changed columns and the added rows in one transaction.      *)
(* The handlers read with plain SELECTs (no row lock, no version column),  *)
(* so between the load and the commit of one request another request may   *)
(* load and commit.                                                        *)
(***************************************************************************)
EXTENDS Integers, Sequences, FiniteSets, TLC

VARIABLES campaigns, deleted, donations, matching_gifts, payment_methods,
          now, req, nreq, resp

vars == <<campaigns, deleted, donations, matching_gifts, payment_methods,
          now, req, nreq, resp>>

----------------------------------------------------------------------------
(* Bounds of the model *)

MaxRequests == 3
MaxTime == 2

Procs == {1, 2}
Users == {"u1", "u2"}
Creators == {"u1"}
Donors == {"u2"}
CampaignIds == {"c1"}
(* an id that no campaign has *)
UnknownId == "c9"
Organizations == {"o1"}

(* Request inputs *)
(* create_campaign bodies; 0 stands for a field that is absent or falsy *)
CampaignInput(st, goal, en, pool, ratio, sd, ed) ==
    [status |-> st, goal_amount |-> goal, matching_enabled |-> en,
     matching_pool |-> pool, matching_ratio |-> ratio,
     start_date |-> sd, end_date |-> ed]
CampaignInputs == {CampaignInput("draft", 0, FALSE, 0, 0, 0, 0),
                   CampaignInput("active", 10000, TRUE, 6000, 0, 0, 0),
                   CampaignInput("active", 20000, TRUE, 10000, 50, 0, 1),
                   CampaignInput("active", 10000, TRUE, -500, 100, 2, 0),
                   CampaignInput("active", -10000, FALSE, 3000, 0, 0, 0)}
OrgInputs == {"o1", "o9", ""}
AmountInputs == {[k |-> "missing", v |-> 0], [k |-> "bad", v |-> 0],
                 [k |-> "num", v |-> 0], [k |-> "num", v |-> -5000],
                 [k |-> "num", v |-> 5000], [k |-> "num", v |-> 8000]}
(* bodies of create_donation and donate_to_campaign *)
DonationInput(a, cover, recurring, eligible) ==
    [amount |-> a, cover_fees |-> cover, is_recurring |-> recurring,
     matching_gift_eligible |-> eligible]
DonationInputs == {DonationInput(a, FALSE, a.k = "num" /\ a.v = 8000, FALSE) :
                     a \in AmountInputs}
(* bodies that exercise the fee columns, recurring donations and the       *)
(* matching-gift flag                                                      *)
RecordInputs == {DonationInput([k |-> "num", v |-> 630], TRUE, FALSE, FALSE),
                 DonationInput([k |-> "num", v |-> 10], FALSE, FALSE, FALSE),
                 DonationInput([k |-> "num", v |-> 5000], FALSE, TRUE, TRUE)}
(* create_bulk_donations bodies: the list under 'donations' *)
BulkItem(user, a, cover) ==
    [user_id |-> user, organization_id |-> "o1", amount |-> a, cover_fees |-> cover]
BulkInputs == {<<>>,
               <<BulkItem("u2", [k |-> "num", v |-> 630], TRUE)>>,
               <<BulkItem("u2", [k |-> "num", v |-> 5000], FALSE),
                 BulkItem("u1", [k |-> "num", v |-> -5000], FALSE)>>,
               <<BulkItem("u2", [k |-> "num", v |-> 5000], FALSE),
                 BulkItem("u2", [k |-> "missing", v |-> 0], FALSE)>>,
               <<BulkItem("u2", [k |-> "num", v |-> 5000], FALSE),
                 BulkItem("", [k |-> "num", v |-> 5000], FALSE)>>,
               <<BulkItem("u2", [k |-> "num", v |-> 5000], FALSE),
                 BulkItem("u2", [k |-> "bad", v |-> 0], FALSE)>>}
(* create_matching_gift bodies; match_ratio 0 stands for an absent field *)
GiftInputs == {[employer_name |-> "", employee_email |-> "e", match_ratio |-> 0],
               [employer_name |-> "acme", employee_email |-> "e", match_ratio |-> 0],
               [employer_name |-> "acme", employee_email |-> "e", match_ratio |-> 50]}
(* update_campaign bodies; 0 stands for a falsy value *)
UpdateInputs == {[status |-> "completed"],
                 [matching_pool |-> 0, matching_ratio |-> 0],
                 [status |-> "active", matching_enabled |-> TRUE, matching_pool |-> 10000]}
(* update_campaign bodies of the campaign's management: fields that are    *)
(* not updatable, and dates (a string that does not parse, or a date)      *)
BadDate == [k |-> "bad", v |-> 0]
Date(t) == [k |-> "date", v |-> t]
ManageInputs == {[status |-> "paused", raised_amount |-> 99900, creator_id |-> "u2",
                  organization_id |-> "o9"],
                 [status |-> "cancelled", goal_amount |-> 5000, start_date |-> BadDate],
                 [status |-> "cancelled", start_date |-> Date(1), end_date |-> BadDate],
                 [goal_amount |-> -5000, end_date |-> Date(2)]}
(* add_payment_method bodies; "" stands for a required field that is absent *)
PaymentInputs == {[type |-> "", is_default |-> TRUE],
                  [type |-> "card", is_default |-> TRUE],
                  [type |-> "card", is_default |-> FALSE]}
(* add_campaign_update bodies *)
PostInputs == {[title |-> "", content |-> "x"], [title |-> "t", content |-> "x"]}
(* create_donation bodies of the donors of a managed campaign *)
ManageDonations == {DonationInput([k |-> "num", v |-> 5000], FALSE, FALSE, FALSE)}

----------------------------------------------------------------------------
(* Nullable values *)

Null == <<>>
Some(v) == <<v>>
Val(x) == x[1]

Min(a, b) == IF a <= b THEN a ELSE b

----------------------------------------------------------------------------
(* Campaign.is_active *)

is_active_ignores_start(c, t) ==
    /\ c.status = "active"
    /\ ~(c.end_date # Null /\ t > Val(c.end_date))

is_active(c, t) ==
    /\ c.status = "active"
    /\ ~(c.start_date # Null /\ t < Val(c.start_date))
    /\ ~(c.end_date # Null /\ t > Val(c.end_date))

(* Campaign.calculate_progress_percentage; the float result is held in     *)
(* hundredths of a percent, truncated toward zero                          *)
Quot(a, b) ==
    IF (a >= 0) = (b > 0)
    THEN (IF a >= 0 THEN a ELSE -a) \div (IF b > 0 THEN b ELSE -b)
    ELSE -((IF a >= 0 THEN a ELSE -a) \div (IF b > 0 THEN b ELSE -b))

calculate_progress_percentage(c) ==
    IF c.goal_amount = Null \/ Val(c.goal_amount) = 0
    THEN 0
    ELSE Min(100 * 100, Quot(c.raised_amount * 100 * 100, Val(c.goal_amount)))

(* Campaign.to_dict: float(self.matching_ratio) raises TypeError on NULL *)
to_dict_raises(c) == c.matching_ratio = Null

----------------------------------------------------------------------------
(* Session: unit of work of one request *)

NoSession == [pc |-> "idle", user |-> "", data |-> Null, cid |-> "", loaded |-> Null,
              obj |-> Null, adds |-> <<>>, gift |-> Null, did |-> 0, matched |-> {}]

(* The response of the step just taken: handler, campaign of the path (or  *)
(* the field that the error message names), code                           *)
NoResp == [op |-> "none", id |-> "", code |-> 0]

(* Columns of a loaded row that the session has changed *)
Dirty(loaded, obj) == {f \in DOMAIN obj : obj[f] # loaded[f]}

(* UPDATE <table> SET <changed columns> WHERE id = <id> *)
FlushRow(row, loaded, obj) ==
    [f \in DOMAIN row |-> IF f \in Dirty(loaded, obj) THEN obj[f] ELSE row[f]]

(* The handler returns: the response goes out and the session is removed *)
Respond(p, op, id, code) ==
    /\ req' = [req EXCEPT ![p] = NoSession]
    /\ resp' = [op |-> op, id |-> id, code |-> code]

(* The handler returns before it has touched the session *)
Reject(p, op, id, code) ==
    /\ Respond(p, op, id, code)
    /\ UNCHANGED nreq

(* The handler goes on with its session open *)
Continue(p, s) ==
    /\ req' = [req EXCEPT ![p] = s]
    /\ resp' = NoResp
    /\ nreq' = nreq + 1

(* A request is taken by the first free worker *)
Begin(p) ==
    /\ req[p].pc = "idle"
    /\ \A q \in Procs : q < p => req[q].pc # "idle"
    /\ nreq < MaxRequests

AmountRejected_unless_negative(a) == a.k # "num" \/ a.v = 0

(* request.get_json()['amount'] accepted by the amount validation *)
AmountRejected(a) == a.k # "num" \/ a.v <= 0

----------------------------------------------------------------------------
(* create_campaign *)

NewCampaign(user, org, data) ==
    [creator_id |-> user,
     organization_id |-> org,
     goal_amount |-> IF data.goal_amount # 0 THEN Some(data.goal_amount) ELSE Null,
     status |-> data.status,
     start_date |-> IF data.start_date # 0 THEN Some(data.start_date) ELSE Null,
     end_date |-> IF data.end_date # 0 THEN Some(data.end_date) ELSE Null,
     raised_amount |-> 0,
     matching_enabled |-> data.matching_enabled,
     matching_pool |-> IF data.matching_pool # 0 THEN Some(data.matching_pool) ELSE Some(0),
     matching_ratio |-> IF data.matching_ratio # 0 THEN Some(data.matching_ratio) ELSE Some(100),
     updates |-> <<>>]

Insert(table, id, row) ==
    [c \in DOMAIN table \cup {id} |-> IF c = id THEN row ELSE table[c]]

create_campaign(p) ==
    /\ Begin(p)
    /\ \E org \in OrgInputs :
         IF org = ""
         THEN /\ Reject(p, "create_campaign", "", 400)
              /\ UNCHANGED campaigns
         ELSE IF org \notin Organizations
         THEN /\ Reject(p, "create_campaign", "", 404)
              /\ UNCHANGED campaigns
         ELSE /\ nreq' = nreq + 1
              /\ \/ \E user \in Creators, cid \in CampaignIds \ (DOMAIN campaigns \cup deleted),
                       data \in CampaignInputs :
                      /\ campaigns' = Insert(campaigns, cid, NewCampaign(user, org, data))
                      /\ Respond(p, "create_campaign", "", 201)
                 \/ /\ Respond(p, "create_campaign", "", 500)
                    /\ UNCHANGED campaigns
    /\ UNCHANGED <<donations, now, deleted, payment_methods, matching_gifts>>

----------------------------------------------------------------------------
(* update_campaign *)

Nullable(v) == IF v # 0 THEN Some(v) ELSE Null

AllowedFields == {"goal_amount", "status", "matching_enabled", "matching_pool",
                  "matching_ratio"}

ApplyUpdate(c, data) ==
    [f \in DOMAIN c |->
        IF f \in AllowedFields /\ f \in DOMAIN data
        THEN IF f \in {"goal_amount", "matching_pool", "matching_ratio"}
             THEN Nullable(data[f])
             ELSE data[f]
        ELSE c[f]]

Owns_anyone(c, user) == TRUE

(* Campaign.query.filter_by(id=campaign_id, creator_id=current_user_id) *)
Owns(c, user) == c.creator_id = user

(* datetime.fromisoformat(data[field]...) raises *)
DateRaises(data, field) == field \in DOMAIN data /\ data[field].k = "bad"

(* campaign.<field> = datetime.fromisoformat(...) if data[field] else None *)
ApplyDate(c, data, field) ==
    IF field \in DOMAIN data /\ ~DateRaises(data, field)
    THEN [c EXCEPT ![field] = IF data[field].k = "date" THEN Some(data[field].v) ELSE Null]
    ELSE c

update_campaign_with(p, bodies) ==
    /\ Begin(p)
    /\ \E user \in Users, cid \in DOMAIN campaigns \cup {UnknownId} :
         IF cid \notin DOMAIN campaigns \/ ~Owns(campaigns[cid], user)
         THEN Reject(p, "update_campaign", cid, 404)
         ELSE \E data \in bodies :
                LET assigned == ApplyUpdate(campaigns[cid], data)
                    started == ApplyDate(assigned, data, "start_date")
                    ended == ApplyDate(started, data, "end_date")
                    s == [NoSession EXCEPT !.user = user, !.data = Some(data),
                                           !.cid = cid,
                                           !.loaded = Some(campaigns[cid])]
                IN  IF DateRaises(data, "start_date")
                    THEN Continue(p, [s EXCEPT !.pc = "uc_invalid",
                                               !.obj = Some(assigned)])
                    ELSE IF DateRaises(data, "end_date")
                    THEN Continue(p, [s EXCEPT !.pc = "uc_invalid",
                                               !.obj = Some(started)])
                    ELSE Continue(p, [s EXCEPT !.pc = "uc_commit",
                                               !.obj = Some(ended)])
    /\ UNCHANGED <<campaigns, donations, now, deleted, payment_methods, matching_gifts>>

update_campaign(p) == update_campaign_with(p, UpdateInputs)

update_campaign_invalid_flushes(p) ==
    /\ req[p].pc = "uc_invalid"
    /\ req[p].cid \in DOMAIN campaigns
    /\ campaigns' = [campaigns EXCEPT ![req[p].cid] =
                        FlushRow(@, Val(req[p].loaded), Val(req[p].obj))]
    /\ Respond(p, "update_campaign", req[p].cid, 400)
    /\ UNCHANGED <<donations, now, deleted, payment_methods, matching_gifts, nreq>>

(* `return jsonify({'error': 'Invalid ..._date format'}), 400`: no commit,  *)
(* and the session with the changed campaign is removed when the request   *)
(* ends                                                                    *)
update_campaign_invalid(p) ==
    /\ req[p].pc = "uc_invalid"
    /\ Respond(p, "update_campaign", req[p].cid, 400)
    /\ UNCHANGED <<campaigns, donations, now, deleted, payment_methods,
                   matching_gifts, nreq>>

update_campaign_commit(p) ==
    /\ req[p].pc = "uc_commit"
    /\ req[p].cid \in DOMAIN campaigns
    /\ campaigns' = [campaigns EXCEPT ![req[p].cid] =
                        FlushRow(@, Val(req[p].loaded), Val(req[p].obj))]
    /\ Respond(p, "update_campaign", req[p].cid,
               IF to_dict_raises(campaigns'[req[p].cid]) THEN 500 ELSE 200)
    /\ UNCHANGED <<donations, now, deleted, payment_methods, matching_gifts, nreq>>

----------------------------------------------------------------------------
(* delete_campaign *)

(* campaign.donations: SELECT ... FROM donations WHERE campaign_id = :id *)
HasDonations(cid) ==
    \E i \in 1..Len(donations) : donations[i].campaign_id = Some(cid)

delete_campaign(p) ==
    /\ Begin(p)
    /\ \E user \in Users, cid \in DOMAIN campaigns \cup {UnknownId} :
         IF cid \notin DOMAIN campaigns \/ ~Owns(campaigns[cid], user)
         THEN Reject(p, "delete_campaign", cid, 404)
         ELSE IF HasDonations(cid)
         THEN Reject(p, "delete_campaign", cid, 400)
         ELSE Continue(p, [NoSession EXCEPT !.pc = "del_commit", !.user = user,
                                            !.cid = cid,
                                            !.loaded = Some(campaigns[cid])])
    /\ UNCHANGED <<campaigns, donations, now, deleted, payment_methods, matching_gifts>>

(* DELETE FROM campaigns WHERE id = :id; the donations collection was      *)
(* loaded empty by the check, so no donation row is touched                *)
delete_campaign_commit(p) ==
    /\ req[p].pc = "del_commit"
    /\ campaigns' = [c \in DOMAIN campaigns \ {req[p].cid} |-> campaigns[c]]
    /\ deleted' = deleted \cup {req[p].cid}
    /\ Respond(p, "delete_campaign", req[p].cid, 200)
    /\ UNCHANGED <<donations, now, payment_methods, matching_gifts, nreq>>

----------------------------------------------------------------------------
(* add_campaign_update *)

add_campaign_update(p) ==
    /\ Begin(p)
    /\ \E user \in Users, cid \in DOMAIN campaigns \cup {UnknownId} :
         IF cid \notin DOMAIN campaigns \/ ~Owns(campaigns[cid], user)
         THEN Reject(p, "add_campaign_update", cid, 404)
         ELSE \E data \in PostInputs :
                IF data.title = "" \/ data.content = ""
                THEN Reject(p, "add_campaign_update", cid, 400)
                ELSE Continue(p, [NoSession EXCEPT
                        !.pc = "au_commit", !.user = user, !.data = Some(data),
                        !.cid = cid, !.loaded = Some(campaigns[cid]),
                        !.obj = Some([campaigns[cid] EXCEPT
                                        !.updates = Append(@, data.title)])])
    /\ UNCHANGED <<campaigns, donations, now, deleted, payment_methods, matching_gifts>>

add_campaign_update_commit(p) ==
    /\ req[p].pc = "au_commit"
    /\ req[p].cid \in DOMAIN campaigns
    /\ campaigns' = [campaigns EXCEPT ![req[p].cid] =
                        FlushRow(@, Val(req[p].loaded), Val(req[p].obj))]
    /\ Respond(p, "add_campaign_update", req[p].cid,
               IF to_dict_raises(campaigns'[req[p].cid]) THEN 500 ELSE 201)
    /\ UNCHANGED <<donations, now, deleted, payment_methods, matching_gifts, nreq>>

----------------------------------------------------------------------------
(* donate_to_campaign *)

(* The fees of a donation object, before it is stored.  An amount is in    *)
(* cents and has 2 decimals; amount * 0.029 has 5, so the Decimal results  *)
(* are exact and are held here in thousandths of a cent.                   *)
Exact(cents) == 1000 * cents

platform_fee_always(amount, cover_fees) == 10 * amount

transaction_fee(amount) == 29 * amount + Exact(30)

platform_fee(amount, cover_fees) == IF cover_fees THEN 10 * amount ELSE 0

net_amount(amount, cover_fees) ==
    Exact(amount) - transaction_fee(amount) - platform_fee(amount, cover_fees)

Fees(amount, cover_fees) ==
    [transaction_fee |-> transaction_fee(amount),
     platform_fee |-> platform_fee(amount, cover_fees),
     net_amount |-> net_amount(amount, cover_fees)]

(* Fees of the matching donation: Decimal('0'), Decimal('0'), match_amount *)
NoFees(amount) ==
    [transaction_fee |-> 0, platform_fee |-> 0, net_amount |-> Exact(amount)]

(* A Numeric(10, 2) column holds the value rounded to 2 decimals *)
Numeric2(x) == IF x >= 0 THEN (x + 500) \div 1000 ELSE -((500 - x) \div 1000)

(* The Donation object a handler builds *)
NewDonation(user, cid, amount, method, st, recurring, anon, fees, eligible) ==
    [user_id |-> user, campaign_id |-> cid, amount |-> amount,
     payment_method |-> method, payment_status |-> st,
     transaction_fee |-> fees.transaction_fee,
     platform_fee |-> fees.platform_fee,
     net_amount |-> fees.net_amount,
     is_recurring |-> recurring, is_anonymous |-> anon,
     matching_gift_eligible |-> eligible,
     matching_gift_status |-> Null, matching_gift_amount |-> Null]

(* INSERT INTO donations: the row as the table holds it *)
DonationRow(d) ==
    [d EXCEPT !.transaction_fee = Numeric2(@),
              !.platform_fee = Numeric2(@),
              !.net_amount = Numeric2(@)]

InsertAll(table, adds) == table \o [i \in 1..Len(adds) |-> DonationRow(adds[i])]

(* `campaign.matching_pool > 0` and `amount * campaign.matching_ratio` *)
(* raise TypeError on a NULL column                                   *)
MatchRaises(c) ==
    /\ c.matching_enabled
    /\ \/ c.matching_pool = Null
       \/ Val(c.matching_pool) > 0 /\ c.matching_ratio = Null

MatchAmountNoClamp(c, amount) ==
    IF c.matching_enabled /\ Val(c.matching_pool) > 0
    THEN (amount * Val(c.matching_ratio)) \div 100
    ELSE 0

MatchAmount(c, amount) ==
    IF c.matching_enabled /\ Val(c.matching_pool) > 0
    THEN Min((amount * Val(c.matching_ratio)) \div 100, Val(c.matching_pool))
    ELSE 0

Settle_donor_only(c, amount) ==
    LET match == MatchAmount(c, amount)
    IN  [c EXCEPT !.raised_amount = @ + amount,
                  !.matching_pool = IF match > 0 THEN Some(Val(@) - match) ELSE @]

Settle(c, amount) ==
    LET raised == [c EXCEPT !.raised_amount = @ + amount]
        match == MatchAmount(c, amount)
    IN  IF match > 0
        THEN [raised EXCEPT !.matching_pool = Some(Val(@) - match),
                            !.raised_amount = @ + match]
        ELSE raised

SettleAdds_match_not_anonymous(c, user, cid, data) ==
    LET amount == data.amount.v
        match == MatchAmount(c, amount)
        donation == NewDonation(user, Some(cid), amount, "stripe", "completed",
                                FALSE, FALSE, Fees(amount, data.cover_fees), FALSE)
        matching == NewDonation(user, Some(cid), match, "platform_matching", "completed",
                                FALSE, FALSE, NoFees(match), FALSE)
    IN  IF match > 0 THEN <<donation, matching>> ELSE <<donation>>

SettleAdds(c, user, cid, data) ==
    LET amount == data.amount.v
        match == MatchAmount(c, amount)
        donation == NewDonation(user, Some(cid), amount, "stripe", "completed",
                                FALSE, FALSE, Fees(amount, data.cover_fees), FALSE)
        matching == NewDonation(user, Some(cid), match, "platform_matching", "completed",
                                FALSE, TRUE, NoFees(match), FALSE)
    IN  IF match > 0 THEN <<donation, matching>> ELSE <<donation>>

donate_to_campaign_with(p, bodies) ==
    /\ Begin(p)
    /\ \E cid \in DOMAIN campaigns \cup {UnknownId} :
         IF cid \notin DOMAIN campaigns
         THEN Reject(p, "donate_to_campaign", cid, 404)
         ELSE IF ~is_active(campaigns[cid], now)
         THEN Reject(p, "donate_to_campaign", cid, 400)
         ELSE \E data \in bodies :
                IF AmountRejected(data.amount)
                THEN Reject(p, "donate_to_campaign", cid, 400)
                ELSE IF MatchRaises(campaigns[cid])
                THEN Respond(p, "donate_to_campaign", cid, 500) /\ nreq' = nreq + 1
                ELSE \E user \in Donors :
                       Continue(p, [NoSession EXCEPT
                            !.pc = "dc_commit", !.data = Some(data), !.cid = cid,
                            !.loaded = Some(campaigns[cid]),
                            !.obj = Some(Settle(campaigns[cid], data.amount.v)),
                            !.adds = SettleAdds(campaigns[cid], user, cid, data)])
    /\ UNCHANGED <<campaigns, donations, now, deleted, payment_methods, matching_gifts>>

donate_to_campaign(p) == donate_to_campaign_with(p, DonationInputs)

donate_to_campaign_commit(p) ==
    /\ req[p].pc = "dc_commit"
    /\ req[p].cid \in DOMAIN campaigns
    /\ campaigns' = [campaigns EXCEPT ![req[p].cid] =
                        FlushRow(@, Val(req[p].loaded), Val(req[p].obj))]
    /\ donations' = InsertAll(donations, req[p].adds)
    /\ Respond(p, "donate_to_campaign", req[p].cid,
               IF to_dict_raises(campaigns'[req[p].cid]) THEN 500 ELSE 201)
    /\ UNCHANGED <<now, deleted, payment_methods, matching_gifts, nreq>>

----------------------------------------------------------------------------
(* create_donation *)

create_donation_with(p, bodies) ==
    /\ Begin(p)
    /\ \E org \in OrgInputs :
         IF org = ""
         THEN Reject(p, "create_donation", "", 400)
         ELSE \E data \in bodies :
           LET a == data.amount IN
           IF a.k = "missing" \/ (a.k = "num" /\ a.v = 0)
           THEN Reject(p, "create_donation", "", 400)
           ELSE IF org \notin Organizations
           THEN Reject(p, "create_donation", "", 404)
           ELSE IF AmountRejected(a)
           THEN Reject(p, "create_donation", "", 400)
           ELSE \E user \in Donors, cid \in DOMAIN campaigns \cup {"", UnknownId} :
                LET donation == NewDonation(user, IF cid = "" THEN Null ELSE Some(cid),
                                            a.v, "stripe", "pending", data.is_recurring, FALSE,
                                            Fees(a.v, data.cover_fees),
                                            data.matching_gift_eligible)
                    found == cid # "" /\ cid \in DOMAIN campaigns
                IN  Continue(p, [NoSession EXCEPT
                        !.pc = "cd_commit", !.data = Some(data), !.cid = cid,
                        !.loaded = IF found THEN Some(campaigns[cid]) ELSE Null,
                        !.obj = IF found
                                THEN Some([campaigns[cid] EXCEPT !.raised_amount = @ + a.v])
                                ELSE Null,
                        !.adds = <<donation>>])
    /\ UNCHANGED <<campaigns, donations, now, deleted, payment_methods, matching_gifts>>

create_donation(p) == create_donation_with(p, DonationInputs)

create_donation_commit(p) ==
    /\ req[p].pc = "cd_commit"
    /\ req[p].loaded # Null => req[p].cid \in DOMAIN campaigns
    /\ campaigns' = IF req[p].loaded # Null
                    THEN [campaigns EXCEPT ![req[p].cid] =
                             FlushRow(@, Val(req[p].loaded), Val(req[p].obj))]
                    ELSE campaigns
    /\ donations' = InsertAll(donations, req[p].adds)
    /\ req' = [req EXCEPT ![p] = [@ EXCEPT !.pc = "cd_complete", !.obj = Null,
                                           !.adds = <<>>,
                                           !.did = Len(donations) + 1]]
    /\ resp' = NoResp
    /\ UNCHANGED <<now, deleted, payment_methods, matching_gifts, nreq>>

create_donation_complete(p) ==
    /\ req[p].pc = "cd_complete"
    /\ donations' = [donations EXCEPT ![req[p].did].payment_status = "completed"]
    /\ Respond(p, "create_donation", "", 201)
    /\ UNCHANGED <<campaigns, now, deleted, payment_methods, matching_gifts, nreq>>

----------------------------------------------------------------------------
(* cancel_recurring_donation *)

AlreadyCancelled_never(d) == FALSE

(* donation.payment_status == 'cancelled' *)
AlreadyCancelled(d) == d.payment_status = "cancelled"

cancel_recurring_donation(p) ==
    /\ Begin(p)
    /\ \E user \in Users, did \in 1..(Len(donations) + 1) :
         IF \/ did > Len(donations)
            \/ donations[did].user_id # user
            \/ ~donations[did].is_recurring
         THEN Reject(p, "cancel_recurring_donation", "", 404)
         ELSE IF AlreadyCancelled(donations[did])
         THEN Reject(p, "cancel_recurring_donation", "", 400)
         ELSE Continue(p, [NoSession EXCEPT !.pc = "cr_commit", !.user = user,
                                            !.did = did])
    /\ UNCHANGED <<campaigns, donations, now, deleted, payment_methods, matching_gifts>>

cancel_recurring_donation_commit(p) ==
    /\ req[p].pc = "cr_commit"
    /\ donations' = [donations EXCEPT ![req[p].did].payment_status = "cancelled"]
    /\ Respond(p, "cancel_recurring_donation", "", 200)
    /\ UNCHANGED <<campaigns, now, deleted, payment_methods, matching_gifts, nreq>>

----------------------------------------------------------------------------
(* create_bulk_donations *)

(* `if not donation_data.get(field)` for user_id, organization_id, amount *)
BulkItemIncomplete(item) ==
    \/ item.user_id = ""
    \/ item.organization_id = ""
    \/ item.amount.k = "missing"
    \/ (item.amount.k = "num" /\ item.amount.v = 0)

(* Decimal(str(donation_data['amount'])) raises InvalidOperation *)
BulkItemRaises(item) == item.amount.k = "bad"

BulkDonation(item) ==
    NewDonation(item.user_id, Null, item.amount.v, "bulk_import", "completed",
                FALSE, FALSE, Fees(item.amount.v, item.cover_fees), FALSE)

(* The first required field that the item lacks *)
MissingField(item) ==
    IF item.user_id = "" THEN "user_id"
    ELSE IF item.organization_id = "" THEN "organization_id"
    ELSE "amount"

(* The items are built and added to the session one by one, up to the      *)
(* first item that lacks a required field or that raises                   *)
create_bulk_donations(p) ==
    /\ Begin(p)
    /\ \E items \in BulkInputs :
         LET stops == {i \in 1..Len(items) :
                         BulkItemIncomplete(items[i]) \/ BulkItemRaises(items[i])}
             first == CHOOSE i \in stops : \A j \in stops : i <= j
         IN  IF items = <<>>
             THEN Reject(p, "create_bulk_donations", "", 400)
             ELSE IF stops # {} /\ BulkItemIncomplete(items[first])
             THEN Continue(p, [NoSession EXCEPT
                     !.pc = "bk_invalid", !.data = Some(items), !.did = first,
                     !.adds = [i \in 1..(first - 1) |-> BulkDonation(items[i])]])
             ELSE IF stops # {}
             THEN Respond(p, "create_bulk_donations", "", 500) /\ nreq' = nreq + 1
             ELSE Continue(p, [NoSession EXCEPT
                     !.pc = "bk_commit", !.data = Some(items),
                     !.adds = [i \in 1..Len(items) |-> BulkDonation(items[i])]])
    /\ UNCHANGED <<campaigns, donations, now, deleted, payment_methods, matching_gifts>>

create_bulk_donations_invalid_flushes(p) ==
    /\ req[p].pc = "bk_invalid"
    /\ donations' = InsertAll(donations, req[p].adds)
    /\ Respond(p, "create_bulk_donations",
               MissingField(Val(req[p].data)[req[p].did]), 400)
    /\ UNCHANGED <<campaigns, now, deleted, payment_methods, matching_gifts, nreq>>

(* `return jsonify(...), 400` inside the loop: no commit, and the session  *)
(* with the items added so far is removed when the request ends            *)
create_bulk_donations_invalid(p) ==
    /\ req[p].pc = "bk_invalid"
    /\ Respond(p, "create_bulk_donations",
               MissingField(Val(req[p].data)[req[p].did]), 400)
    /\ UNCHANGED <<campaigns, donations, now, deleted, payment_methods,
                   matching_gifts, nreq>>

create_bulk_donations_commit(p) ==
    /\ req[p].pc = "bk_commit"
    /\ donations' = InsertAll(donations, req[p].adds)
    /\ Respond(p, "create_bulk_donations", "", 201)
    /\ UNCHANGED <<campaigns, now, deleted, payment_methods, matching_gifts, nreq>>

----------------------------------------------------------------------------
(* create_matching_gift *)

GiftRatio_ignores_supplied(data) == 100

(* data.get('match_ratio', '1.0'), in hundredths *)
GiftRatio(data) == IF data.match_ratio = 0 THEN 100 ELSE data.match_ratio

(* donation.amount * match_ratio, in thousandths of a cent *)
GiftAmount(donation, data) == 10 * donation.amount * GiftRatio(data)

NewMatchingGift(did, donation, data) ==
    [donation_id |-> did, employer_name |-> data.employer_name,
     match_ratio |-> GiftRatio(data),
     match_amount |-> GiftAmount(donation, data), status |-> "pending"]

(* INSERT INTO matching_gifts *)
MatchingGiftRow(g) == [g EXCEPT !.match_amount = Numeric2(@)]

create_matching_gift(p) ==
    /\ Begin(p)
    /\ \E user \in Users, did \in 1..(Len(donations) + 1), data \in GiftInputs :
         IF did > Len(donations) \/ donations[did].user_id # user
         THEN Reject(p, "create_matching_gift", "", 404)
         ELSE IF ~donations[did].matching_gift_eligible
         THEN Reject(p, "create_matching_gift", "", 400)
         ELSE IF data.employer_name = "" \/ data.employee_email = ""
         THEN Reject(p, "create_matching_gift", "", 400)
         ELSE Continue(p, [NoSession EXCEPT
                 !.pc = "mg_commit", !.data = Some(data), !.did = did,
                 !.loaded = Some(donations[did]),
                 !.obj = Some([donations[did] EXCEPT
                            !.matching_gift_status = Some("submitted"),
                            !.matching_gift_amount =
                                Some(Numeric2(GiftAmount(donations[did], data)))]),
                 !.gift = Some(NewMatchingGift(did, donations[did], data))])
    /\ UNCHANGED <<campaigns, donations, now, deleted, payment_methods, matching_gifts>>

create_matching_gift_commit(p) ==
    /\ req[p].pc = "mg_commit"
    /\ donations' = [donations EXCEPT ![req[p].did] =
                        FlushRow(@, Val(req[p].loaded), Val(req[p].obj))]
    /\ matching_gifts' = Append(matching_gifts, MatchingGiftRow(Val(req[p].gift)))
    /\ Respond(p, "create_matching_gift", "", 201)
    /\ UNCHANGED <<campaigns, now, deleted, payment_methods, nreq>>

----------------------------------------------------------------------------
(* add_payment_method, delete_payment_method *)

NewPaymentMethod(user, data) ==
    [user_id |-> user, is_default |-> data.is_default, is_active |-> TRUE]

(* UPDATE payment_methods SET is_default = false on the rows it matched *)
ClearDefaults(table, rows) ==
    [i \in 1..Len(table) |->
        IF i \in rows THEN [table[i] EXCEPT !.is_default = FALSE] ELSE table[i]]

(* The UPDATE runs inside the request's transaction when the handler       *)
(* reaches it: it matches the user's default rows committed by then, and   *)
(* its effect is visible to other requests from the commit on              *)
add_payment_method(p) ==
    /\ Begin(p)
    /\ \E user \in Users, data \in PaymentInputs :
         IF data.type = ""
         THEN Reject(p, "add_payment_method", "", 400)
         ELSE Continue(p, [NoSession EXCEPT
                 !.pc = "pm_commit", !.user = user, !.data = Some(data),
                 !.matched = IF data.is_default
                             THEN {i \in 1..Len(payment_methods) :
                                     /\ payment_methods[i].user_id = user
                                     /\ payment_methods[i].is_default}
                             ELSE {}])
    /\ UNCHANGED <<campaigns, donations, now, deleted, payment_methods, matching_gifts>>

add_payment_method_commit(p) ==
    /\ req[p].pc = "pm_commit"
    /\ payment_methods' =
           Append(ClearDefaults(payment_methods, req[p].matched),
                  NewPaymentMethod(req[p].user, Val(req[p].data)))
    /\ Respond(p, "add_payment_method", "", 201)
    /\ UNCHANGED <<campaigns, donations, now, deleted, matching_gifts, nreq>>

delete_payment_method(p) ==
    /\ Begin(p)
    /\ \E user \in Users, mid \in 1..(Len(payment_methods) + 1) :
         IF mid > Len(payment_methods) \/ payment_methods[mid].user_id # user
         THEN Reject(p, "delete_payment_method", "", 404)
         ELSE Continue(p, [NoSession EXCEPT !.pc = "pd_commit", !.user = user,
                                            !.did = mid])
    /\ UNCHANGED <<campaigns, donations, now, deleted, payment_methods, matching_gifts>>

delete_payment_method_commit(p) ==
    /\ req[p].pc = "pd_commit"
    /\ payment_methods' = [payment_methods EXCEPT ![req[p].did].is_active = FALSE]
    /\ Respond(p, "delete_payment_method", "", 200)
    /\ UNCHANGED <<campaigns, donations, now, deleted, matching_gifts, nreq>>

----------------------------------------------------------------------------
(* commit() raises: the except clause rolls the session back and answers 500 *)

CommitPcs == {"uc_commit", "del_commit", "au_commit", "dc_commit", "cd_commit",
              "cd_complete", "cr_commit", "bk_commit", "mg_commit", "pm_commit",
              "pd_commit"}

(* the handlers whose path names the campaign *)
CampaignPcs == {"uc_commit", "del_commit", "au_commit", "dc_commit"}

OpOf(pc) ==
    CASE pc = "uc_commit" -> "update_campaign"
      [] pc = "del_commit" -> "delete_campaign"
      [] pc = "au_commit" -> "add_campaign_update"
      [] pc = "dc_commit" -> "donate_to_campaign"
      [] pc \in {"cd_commit", "cd_complete"} -> "create_donation"
      [] pc = "cr_commit" -> "cancel_recurring_donation"
      [] pc = "bk_commit" -> "create_bulk_donations"
      [] pc = "mg_commit" -> "create_matching_gift"
      [] pc = "pm_commit" -> "add_payment_method"
      [] pc = "pd_commit" -> "delete_payment_method"

commit_fails_keeps_added(p) ==
    /\ req[p].pc \in CommitPcs
    /\ donations' = InsertAll(donations, req[p].adds)
    /\ Respond(p, OpOf(req[p].pc),
               IF req[p].pc \in CampaignPcs THEN req[p].cid ELSE "", 500)
    /\ UNCHANGED <<campaigns, now, deleted, payment_methods, matching_gifts, nreq>>

commit_fails(p) ==
    /\ req[p].pc \in CommitPcs
    /\ Respond(p, OpOf(req[p].pc),
               IF req[p].pc \in CampaignPcs THEN req[p].cid ELSE "", 500)
    /\ UNCHANGED <<campaigns, donations, now, deleted, payment_methods, matching_gifts, nreq>>

----------------------------------------------------------------------------
(* The clock read by datetime.utcnow() *)

Tick ==
    /\ now < MaxTime
    /\ now' = now + 1
    /\ resp' = NoResp
    /\ UNCHANGED <<campaigns, deleted, payment_methods, donations, matching_gifts, req, nreq>>

----------------------------------------------------------------------------

Init ==
    /\ campaigns = <<>>
    /\ deleted = {}
    /\ payment_methods = <<>>
    /\ donations = <<>>
    /\ matching_gifts = <<>>
    /\ now = 1
    /\ req = [p \in Procs |-> NoSession]
    /\ nreq = 0
    /\ resp = NoResp

(* The handlers that write campaigns and the donations linked to them,     *)
(* running concurrently                                                    *)
Next ==
    \/ \E p \in Procs : create_campaign(p)
    \/ \E p \in Procs : update_campaign(p)
    \/ \E p \in Procs : update_campaign_commit(p)
    \/ \E p \in Procs : donate_to_campaign(p)
    \/ \E p \in Procs : donate_to_campaign_commit(p)
    \/ \E p \in Procs : create_donation(p)
    \/ \E p \in Procs : create_donation_commit(p)
    \/ \E p \in Procs : create_donation_complete(p)
    \/ \E p \in Procs : cancel_recurring_donation(p)
    \/ \E p \in Procs : cancel_recurring_donation_commit(p)
    \/ \E p \in Procs : commit_fails(p)
    \/ Tick

Spec == Init /\ [][Next]_vars

(* The handlers of Next while the clock stands still *)
NextInstant ==
    \/ \E p \in Procs : create_campaign(p)
    \/ \E p \in Procs : update_campaign(p)
    \/ \E p \in Procs : update_campaign_commit(p)
    \/ \E p \in Procs : donate_to_campaign(p)
    \/ \E p \in Procs : donate_to_campaign_commit(p)
    \/ \E p \in Procs : create_donation(p)
    \/ \E p \in Procs : create_donation_commit(p)
    \/ \E p \in Procs : create_donation_complete(p)
    \/ \E p \in Procs : cancel_recurring_donation(p)
    \/ \E p \in Procs : cancel_recurring_donation_commit(p)
    \/ \E p \in Procs : commit_fails(p)

InstantSpec == Init /\ [][NextInstant]_vars

(* The handlers that read or write what Campaign.is_active reads, and the  *)
(* clock                                                                   *)
NextActive ==
    \/ \E p \in Procs : create_campaign(p)
    \/ \E p \in Procs : update_campaign(p)
    \/ \E p \in Procs : update_campaign_commit(p)
    \/ \E p \in Procs : donate_to_campaign(p)
    \/ \E p \in Procs : donate_to_campaign_commit(p)
    \/ \E p \in Procs : commit_fails(p)
    \/ Tick

ActiveSpec == Init /\ [][NextActive]_vars

(* Requests served one at a time, each run to completion *)
Alone(p) == \A q \in Procs \ {p} : req[q].pc = "idle"

NextSeq ==
    \/ \E p \in Procs : Alone(p) /\ create_campaign(p)
    \/ \E p \in Procs : Alone(p) /\ update_campaign(p)
    \/ \E p \in Procs : Alone(p) /\ update_campaign_commit(p)
    \/ \E p \in Procs : Alone(p) /\ donate_to_campaign(p)
    \/ \E p \in Procs : Alone(p) /\ donate_to_campaign_commit(p)
    \/ \E p \in Procs : Alone(p) /\ create_donation(p)
    \/ \E p \in Procs : Alone(p) /\ create_donation_commit(p)
    \/ \E p \in Procs : Alone(p) /\ create_donation_complete(p)
    \/ \E p \in Procs : Alone(p) /\ cancel_recurring_donation(p)
    \/ \E p \in Procs : Alone(p) /\ cancel_recurring_donation_commit(p)
    \/ \E p \in Procs : Alone(p) /\ commit_fails(p)
    \/ Tick

SeqSpec == Init /\ [][NextSeq]_vars

(* Concurrent donate_to_campaign requests on the campaigns that exist *)
NextDonate ==
    \/ \E p \in Procs : create_campaign(p)
    \/ \E p \in Procs : donate_to_campaign(p)
    \/ \E p \in Procs : donate_to_campaign_commit(p)
    \/ \E p \in Procs : commit_fails(p)
    \/ Tick

DonateSpec == Init /\ [][NextDonate]_vars

(* The donation records: requests served one at a time, with the bodies    *)
(* that exercise the fee columns, the bulk import and the matching gifts   *)
NextRecord ==
    \/ \E p \in Procs : Alone(p) /\ create_campaign(p)
    \/ \E p \in Procs : Alone(p) /\ donate_to_campaign_with(p, RecordInputs)
    \/ \E p \in Procs : Alone(p) /\ donate_to_campaign_commit(p)
    \/ \E p \in Procs : Alone(p) /\ create_donation_with(p, RecordInputs)
    \/ \E p \in Procs : Alone(p) /\ create_donation_commit(p)
    \/ \E p \in Procs : Alone(p) /\ create_donation_complete(p)
    \/ \E p \in Procs : Alone(p) /\ create_bulk_donations(p)
    \/ \E p \in Procs : Alone(p) /\ create_bulk_donations_invalid(p)
    \/ \E p \in Procs : Alone(p) /\ create_bulk_donations_commit(p)
    \/ \E p \in Procs : Alone(p) /\ create_matching_gift(p)
    \/ \E p \in Procs : Alone(p) /\ create_matching_gift_commit(p)
    \/ \E p \in Procs : Alone(p) /\ cancel_recurring_donation(p)
    \/ \E p \in Procs : Alone(p) /\ cancel_recurring_donation_commit(p)
    \/ \E p \in Procs : Alone(p) /\ commit_fails(p)

RecordSpec == Init /\ [][NextRecord]_vars

(* The management of a campaign by its creator, concurrent with the        *)
(* donations that link to it                                               *)
NextManage ==
    \/ \E p \in Procs : create_campaign(p)
    \/ \E p \in Procs : update_campaign_with(p, ManageInputs)
    \/ \E p \in Procs : update_campaign_invalid(p)
    \/ \E p \in Procs : update_campaign_commit(p)
    \/ \E p \in Procs : delete_campaign(p)
    \/ \E p \in Procs : delete_campaign_commit(p)
    \/ \E p \in Procs : add_campaign_update(p)
    \/ \E p \in Procs : add_campaign_update_commit(p)
    \/ \E p \in Procs : create_donation_with(p, ManageDonations)
    \/ \E p \in Procs : create_donation_commit(p)
    \/ \E p \in Procs : create_donation_complete(p)
    \/ \E p \in Procs : commit_fails(p)

ManageSpec == Init /\ [][NextManage]_vars

(* The handlers that write campaigns or donations, served one at a time,   *)
(* each run to completion                                                  *)
NextLedger ==
    \/ \E p \in Procs : Alone(p) /\ create_campaign(p)
    \/ \E p \in Procs : Alone(p) /\ create_donation(p)
    \/ \E p \in Procs : Alone(p) /\ create_donation_commit(p)
    \/ \E p \in Procs : Alone(p) /\ create_donation_complete(p)
    \/ \E p \in Procs : Alone(p) /\ donate_to_campaign(p)
    \/ \E p \in Procs : Alone(p) /\ donate_to_campaign_commit(p)
    \/ \E p \in Procs : Alone(p) /\ create_bulk_donations(p)
    \/ \E p \in Procs : Alone(p) /\ create_bulk_donations_invalid(p)
    \/ \E p \in Procs : Alone(p) /\ create_bulk_donations_commit(p)
    \/ \E p \in Procs : Alone(p) /\ update_campaign(p)
    \/ \E p \in Procs : Alone(p) /\ update_campaign_commit(p)
    \/ \E p \in Procs : Alone(p) /\ delete_campaign(p)
    \/ \E p \in Procs : Alone(p) /\ delete_campaign_commit(p)
    \/ \E p \in Procs : Alone(p) /\ commit_fails(p)

LedgerSpec == Init /\ [][NextLedger]_vars

(* The payment methods of the users, added and removed concurrently *)
NextPayment ==
    \/ \E p \in Procs : add_payment_method(p)
    \/ \E p \in Procs : add_payment_method_commit(p)
    \/ \E p \in Procs : delete_payment_method(p)
    \/ \E p \in Procs : delete_payment_method_commit(p)
    \/ \E p \in Procs : commit_fails(p)

PaymentSpec == Init /\ [][NextPayment]_vars

----------------------------------------------------------------------------
(* Steps of a request, as seen from outside *)

(* p's donate_to_campaign commits in this step *)
DonateCommitted(p) ==
    /\ req[p].pc = "dc_commit"
    /\ req'[p].pc = "idle"
    /\ resp' = [op |-> "donate_to_campaign", id |-> req[p].cid, code |-> 201]

(* the amount of the donor's donation of p's open donate_to_campaign *)
DonorAmount(p) == req[p].adds[1].amount

----------------------------------------------------------------------------
(* C1: a successful donate_to_campaign of amount a on a campaign with      *)
(* matching enabled and pool > 0 computes match = min(a * ratio, pool);    *)
(* when match > 0 the pool goes down by match and raised_amount goes up by *)
(* a + match; when matching is disabled or the pool is not positive,       *)
(* raised_amount goes up by a and the pool is unchanged.                   *)
C1_Expected(c, a) ==
    IF c.matching_enabled /\ c.matching_pool # Null /\ Val(c.matching_pool) > 0
    THEN LET product == (a * Val(c.matching_ratio)) \div 100
             match == IF product <= Val(c.matching_pool)
                      THEN product ELSE Val(c.matching_pool)
         IN  IF match > 0
             THEN [pool |-> Some(Val(c.matching_pool) - match),
                   raised |-> c.raised_amount + a + match]
             ELSE [pool |-> c.matching_pool, raised |-> c.raised_amount + a]
    ELSE [pool |-> c.matching_pool, raised |-> c.raised_amount + a]

C1_MatchSettlement ==
    [][\A p \in Procs :
         DonateCommitted(p) =>
            LET cid == req[p].cid
                exp == C1_Expected(campaigns[cid], DonorAmount(p))
            IN  /\ campaigns'[cid].matching_pool = exp.pool
                /\ campaigns'[cid].raised_amount = exp.raised]_vars

(* a donation of 80.00 against a pool of 60.00 at ratio 1.0 has been      *)
(* settled: match clamped to 60.00, pool 0, raised 140.00                 *)
C1_Witness ==
    /\ \E c \in DOMAIN campaigns :
         /\ resp = [op |-> "donate_to_campaign", id |-> c, code |-> 201]
         /\ campaigns[c].matching_pool = Some(0)
         /\ campaigns[c].raised_amount = 14000
         /\ Len(donations) = 2
         /\ donations[1].amount = 8000
         /\ donations[2].amount = 6000

----------------------------------------------------------------------------
(* C2: for two donate_to_campaign requests running concurrently on one     *)
(* campaign the pool never goes negative and the matches they apply never  *)
(* exceed the pool available before them: every applied match is taken    *)
(* out of the pool that the campaign holds when the match is applied.      *)
AppliedMatch(p) == IF Len(req[p].adds) = 2 THEN req[p].adds[2].amount ELSE 0

C2_MatchWithinPool ==
    [][\A p \in Procs :
         (DonateCommitted(p) /\ AppliedMatch(p) > 0) =>
            LET before == campaigns[req[p].cid].matching_pool
                after == campaigns'[req[p].cid].matching_pool
            IN  /\ before # Null
                /\ AppliedMatch(p) <= Val(before)
                /\ after = Some(Val(before) - AppliedMatch(p))
                /\ Val(after) >= 0]_vars

----------------------------------------------------------------------------
(* C3: no update to raised_amount is lost: once the donation requests on a *)
(* campaign have all committed, raised_amount is the sum of the amounts of *)
(* the donations and matches committed for the campaign.                   *)
RECURSIVE SumAmounts(_, _)
SumAmounts(rows, c) ==
    IF rows = <<>>
    THEN 0
    ELSE (IF Head(rows).campaign_id = Some(c) THEN Head(rows).amount ELSE 0)
         + SumAmounts(Tail(rows), c)

Quiescent == \A p \in Procs : req[p].pc = "idle"

C3_NoLostUpdate ==
    Quiescent =>
        \A c \in DOMAIN campaigns :
            campaigns[c].raised_amount = SumAmounts(donations, c)

----------------------------------------------------------------------------
(* C4: in every reachable state every campaign's matching_pool is >= 0.    *)
C4_PoolNonNegative ==
    \A c \in DOMAIN campaigns :
        /\ campaigns[c].matching_pool # Null
        /\ Val(campaigns[c].matching_pool) >= 0

----------------------------------------------------------------------------
(* C5: once a match has been applied to a campaign, no later step makes    *)
(* its matching_pool larger.                                               *)
MatchApplied(c) ==
    \E i \in 1..Len(donations) :
        /\ donations[i].campaign_id = Some(c)
        /\ donations[i].payment_method = "platform_matching"

C5_PoolNonIncreasing ==
    [][\A c \in DOMAIN campaigns :
         (/\ MatchApplied(c)
          /\ campaigns[c].matching_pool # Null
          /\ campaigns'[c].matching_pool # Null)
         => Val(campaigns'[c].matching_pool) <= Val(campaigns[c].matching_pool)]_vars

----------------------------------------------------------------------------
(* C6: a campaign's raised_amount never decreases from one committed state *)
(* to the next.                                                            *)
C6_RaisedNonDecreasing ==
    [][\A c \in DOMAIN campaigns :
         campaigns'[c].raised_amount >= campaigns[c].raised_amount]_vars

----------------------------------------------------------------------------
(* C7: settlement by donate_to_campaign is all-or-nothing: nothing is      *)
(* written before the commit; the step that ends the request either writes *)
(* the donor's donation, the raised_amount increase and, when there is a   *)
(* match, the pool decrement and the matching donation together, or (the   *)
(* commit has failed) retains nothing of the request and answers with an   *)
(* error.                                                                  *)
C7_AllOrNothing ==
    [][\A p \in Procs :
         /\ (req[p].pc = "idle" /\ req'[p].pc = "dc_commit")
               => UNCHANGED <<campaigns, donations>>
         /\ (req[p].pc = "dc_commit" /\ req'[p].pc = "idle") =>
              LET cid == req[p].cid
                  adds == req[p].adds
                  loaded == Val(req[p].loaded)
                  match == AppliedMatch(p)
              IN  \/ /\ Len(donations') = Len(donations) + Len(adds)
                     /\ donations'[Len(donations) + 1].payment_method = "stripe"
                     /\ donations'[Len(donations) + 1].amount = adds[1].amount
                     /\ campaigns'[cid].raised_amount =
                           loaded.raised_amount + adds[1].amount + match
                     /\ IF match > 0
                        THEN /\ donations'[Len(donations) + 2].payment_method
                                   = "platform_matching"
                             /\ donations'[Len(donations) + 2].amount = match
                             /\ campaigns'[cid].matching_pool
                                   = Some(Val(loaded.matching_pool) - match)
                        ELSE /\ Len(adds) = 1
                             /\ campaigns'[cid].matching_pool
                                   = campaigns[cid].matching_pool
                  \/ /\ resp'.code = 500
                     /\ UNCHANGED <<campaigns, donations>>]_vars

(* the commit of a donation with a match has failed: the campaign still    *)
(* has its whole pool and no donation                                      *)
C7_Witness ==
    \E c \in DOMAIN campaigns :
        /\ resp = [op |-> "donate_to_campaign", id |-> c, code |-> 500]
        /\ campaigns[c].matching_enabled
        /\ campaigns[c].matching_pool = Some(6000)
        /\ campaigns[c].raised_amount = 0
        /\ donations = <<>>

----------------------------------------------------------------------------
(* C8: whenever create_donation returns an error because one of its        *)
(* commits fails, no donation created by the request remains persisted and *)
(* nothing that the request wrote is retained.                             *)
C8_FailedCreateLeavesNothing ==
    [][\A p \in Procs :
         (/\ req[p].pc \in {"cd_commit", "cd_complete"}
          /\ req'[p].pc = "idle"
          /\ resp' = [op |-> "create_donation", id |-> "", code |-> 500])
         => /\ req[p].did \notin 1..Len(donations')
            /\ UNCHANGED <<campaigns, donations>>]_vars

----------------------------------------------------------------------------
(* C9: donate_to_campaign on a campaign that is not active (status other   *)
(* than 'active', or now before start_date, or now after end_date; a null  *)
(* bound imposes nothing and the bounds are inclusive) is not taken up for *)
(* settlement: it is answered 400 and raised_amount, matching_pool and the *)
(* donation records are unchanged.                                         *)
C9_NotActive(c, t) ==
    \/ c.status # "active"
    \/ (c.start_date # Null /\ t < Val(c.start_date))
    \/ (c.end_date # Null /\ t > Val(c.end_date))

(* a handler has returned before opening its session *)
Rejected(op, c) ==
    /\ req' = req
    /\ resp'.op = op
    /\ resp'.id = c

C9_InactiveRejected ==
    [][\A c \in DOMAIN campaigns :
         C9_NotActive(campaigns[c], now) =>
            /\ \A p \in Procs :
                  ~(req[p].pc = "idle" /\ req'[p].pc = "dc_commit" /\ req'[p].cid = c)
            /\ Rejected("donate_to_campaign", c) =>
                  /\ resp'.code = 400
                  /\ UNCHANGED <<campaigns, donations>>]_vars

(* a donation to an 'active' campaign that has not started yet was refused *)
C9_Witness ==
    \E c \in DOMAIN campaigns :
        /\ resp = [op |-> "donate_to_campaign", id |-> c, code |-> 400]
        /\ campaigns[c].status = "active"
        /\ campaigns[c].start_date # Null
        /\ now < Val(campaigns[c].start_date)
        /\ campaigns[c].raised_amount = 0
        /\ donations = <<>>

----------------------------------------------------------------------------
(* C10: no donation operation applies a donation to a campaign that is not *)
(* active: neither donate_to_campaign nor create_donation with a           *)
(* campaign_id takes up, for an increase of raised_amount, a campaign      *)
(* whose is_active() is false at the time of the request.                  *)
C10_OnlyActiveSettled ==
    [][\A p \in Procs :
         (/\ req[p].pc = "idle"
          /\ req'[p].pc \in {"dc_commit", "cd_commit"}
          /\ req'[p].loaded # Null
          /\ Val(req'[p].obj).raised_amount > Val(req'[p].loaded).raised_amount)
         => ~C9_NotActive(campaigns[req'[p].cid], now)]_vars

----------------------------------------------------------------------------
(* C11: donate_to_campaign and create_donation called with an amount that  *)
(* is missing, zero, negative or not a decimal answer with an error and    *)
(* leave raised_amount, matching_pool and the donation records unchanged:  *)
(* a request of either handler goes on to build a donation only with a     *)
(* numeric amount > 0, and a request answered before that changes nothing  *)
(* and carries an error code.                                              *)
C11_InvalidAmountRejected ==
    [][/\ \A p \in Procs :
            (req[p].pc = "idle" /\ req'[p].pc \in {"dc_commit", "cd_commit"}) =>
                /\ Val(req'[p].data).amount.k = "num"
                /\ Val(req'[p].data).amount.v > 0
                /\ req'[p].adds[1].amount = Val(req'[p].data).amount.v
                /\ UNCHANGED <<campaigns, donations>>
       /\ (req' = req /\ resp'.op \in {"donate_to_campaign", "create_donation"}) =>
                /\ resp'.code >= 400
                /\ UNCHANGED <<campaigns, donations>>]_vars

(* donate_to_campaign has refused a request on a campaign that is active   *)
(* and whose matching columns are sound: the amount was the reason         *)
C11_Witness ==
    \E c \in DOMAIN campaigns :
        /\ resp = [op |-> "donate_to_campaign", id |-> c, code |-> 400]
        /\ is_active(campaigns[c], now)
        /\ ~MatchRaises(campaigns[c])
        /\ campaigns[c].raised_amount = 0
        /\ donations = <<>>

----------------------------------------------------------------------------
(* C12: every donation record that create_donation, donate_to_campaign     *)
(* (its matching record included) or create_bulk_donations has persisted   *)
(* has amount > 0.                                                         *)
C12_PositiveAmounts ==
    \A i \in 1..Len(donations) : donations[i].amount > 0

----------------------------------------------------------------------------
(* C13: for every amount > 0 and every cover_fees flag the donation that   *)
(* create_donation, donate_to_campaign and create_bulk_donations build has *)
(* transaction_fee = amount * 0.029 + 0.30, platform_fee = amount * 0.01   *)
(* when cover_fees is set and 0 otherwise, and net_amount = amount -       *)
(* transaction_fee - platform_fee: a function of amount and cover_fees.    *)
(* Values are compared in thousandths of a cent.                           *)
C13_FeesOf(d, amount, cover_fees) ==
    /\ amount > 0 =>
         /\ d.amount = amount
         /\ d.transaction_fee = 29 * amount + 30 * 1000
         /\ d.platform_fee = (IF cover_fees THEN 10 * amount ELSE 0)
         /\ d.net_amount = 1000 * amount - d.transaction_fee - d.platform_fee

C13_FeeContract ==
    \A p \in Procs :
        /\ req[p].pc \in {"dc_commit", "cd_commit"} =>
              C13_FeesOf(req[p].adds[1], Val(req[p].data).amount.v,
                         Val(req[p].data).cover_fees)
        /\ req[p].pc = "bk_commit" =>
              /\ Len(req[p].adds) = Len(Val(req[p].data))
              /\ \A i \in 1..Len(req[p].adds) :
                    C13_FeesOf(req[p].adds[i], Val(req[p].data)[i].amount.v,
                               Val(req[p].data)[i].cover_fees)

(* donate_to_campaign has built the donation of 6.30 with cover_fees set:  *)
(* fees 0.4827 and 0.063, net 5.7543                                       *)
C13_Witness ==
    \E p \in Procs :
        /\ req[p].pc = "dc_commit"
        /\ Val(req[p].data).cover_fees
        /\ req[p].adds[1].amount = 630
        /\ req[p].adds[1].transaction_fee = 48270
        /\ req[p].adds[1].platform_fee = 6300
        /\ req[p].adds[1].net_amount = 575430

----------------------------------------------------------------------------
(* C14: for every donation record of a donor the transaction_fee held in   *)
(* the record is amount * 0.029 + 0.30 rounded to 2 decimals, and          *)
(* net_amount = amount - transaction_fee - platform_fee holds exactly on   *)
(* the 2-decimal values held in the record.                                *)
C14_NoRoundingDrift ==
    \A i \in 1..Len(donations) :
        LET d == donations[i] IN
        (d.payment_method # "platform_matching" /\ d.amount > 0) =>
            /\ d.transaction_fee = Numeric2(29 * d.amount + 30 * 1000)
            /\ d.net_amount = d.amount - d.transaction_fee - d.platform_fee

----------------------------------------------------------------------------
(* C15: a successful donate_to_campaign creates exactly one additional     *)
(* matching donation record when the computed match is > 0 and none        *)
(* otherwise; the record has amount = match, transaction_fee 0,            *)
(* platform_fee 0, net_amount = match, is_anonymous true, payment_status   *)
(* completed and the campaign_id of the request.                           *)
C15_Match(c, a) ==
    IF c.matching_enabled /\ c.matching_pool # Null /\ Val(c.matching_pool) > 0
    THEN LET product == (a * Val(c.matching_ratio)) \div 100
         IN  IF product <= Val(c.matching_pool) THEN product ELSE Val(c.matching_pool)
    ELSE 0

C15_MatchingRecord ==
    [][\A p \in Procs :
         DonateCommitted(p) =>
            LET cid == req[p].cid
                match == C15_Match(campaigns[cid], DonorAmount(p))
                n == Len(donations)
                new == {i \in (n + 1)..Len(donations') :
                          donations'[i].payment_method = "platform_matching"}
            IN  /\ Len(donations') = n + (IF match > 0 THEN 2 ELSE 1)
                /\ donations'[n + 1].payment_method # "platform_matching"
                /\ Cardinality(new) = (IF match > 0 THEN 1 ELSE 0)
                /\ \A i \in new :
                      /\ donations'[i].amount = match
                      /\ donations'[i].transaction_fee = 0
                      /\ donations'[i].platform_fee = 0
                      /\ donations'[i].net_amount = match
                      /\ donations'[i].is_anonymous
                      /\ donations'[i].payment_status = "completed"
                      /\ donations'[i].campaign_id = Some(cid)]_vars

(* a donation of 50.00 at ratio 0.5 has been settled with its matching     *)
(* record of 25.00                                                         *)
C15_Witness ==
    \E c \in DOMAIN campaigns :
        /\ resp = [op |-> "donate_to_campaign", id |-> c, code |-> 201]
        /\ Len(donations) = 2
        /\ donations[1].amount = 5000
        /\ donations[2].payment_method = "platform_matching"
        /\ donations[2].amount = 2500
        /\ donations[2].net_amount = 2500
        /\ donations[2].is_anonymous

----------------------------------------------------------------------------
(* C16: the matching donation record of donate_to_campaign is attributed   *)
(* to the platform and not to a payer: its user_id is never the user_id of *)
(* the donation that triggered it (the record stored just before it).      *)
C16_MatchNotDonor ==
    \A i \in 2..Len(donations) :
        donations[i].payment_method = "platform_matching" =>
            donations[i].user_id # donations[i - 1].user_id

----------------------------------------------------------------------------
(* C17: every qualifying donation decrements the matching pool once,       *)
(* whichever operation applies it: when donate_to_campaign, or             *)
(* create_donation with the campaign_id, completes a donation of amount a  *)
(* to a campaign that has matching_enabled and matching_pool > 0, the pool *)
(* is lower by min(a * matching_ratio, matching_pool) than the request     *)
(* found it.                                                               *)
C17_Qualifies(c) ==
    /\ c.matching_enabled
    /\ c.matching_pool # Null
    /\ Val(c.matching_pool) > 0
    /\ c.matching_ratio # Null

C17_Completes(p) ==
    \/ DonateCommitted(p)
    \/ /\ req[p].pc = "cd_complete"
       /\ req'[p].pc = "idle"
       /\ resp' = [op |-> "create_donation", id |-> "", code |-> 201]
       /\ req[p].loaded # Null

C17_PoolDecrementedOnce ==
    [][\A p \in Procs :
         (C17_Completes(p) /\ C17_Qualifies(Val(req[p].loaded))) =>
            LET found == Val(req[p].loaded)
                a == Val(req[p].data).amount.v
            IN  campaigns'[req[p].cid].matching_pool
                    = Some(Val(found.matching_pool) - C15_Match(found, a))]_vars

----------------------------------------------------------------------------
(* C18: every donation record is first persisted with payment_status       *)
(* 'pending', and afterwards its payment_status changes only from pending  *)
(* to completed or from pending to cancelled: no step moves a donation out *)
(* of completed or out of cancelled.                                       *)
C18_StatusLifecycle ==
    [][/\ Len(donations') >= Len(donations)
       /\ \A i \in (Len(donations) + 1)..Len(donations') :
             donations'[i].payment_status = "pending"
       /\ \A i \in 1..Len(donations) :
             \/ donations'[i].payment_status = donations[i].payment_status
             \/ /\ donations[i].payment_status = "pending"
                /\ donations'[i].payment_status \in {"completed", "cancelled"}]_vars

----------------------------------------------------------------------------
(* C19: campaign totals reflect only completed donations: in every         *)
(* committed state, when raised_amount of a campaign counts all the        *)
(* donations linked to the campaign, each of them has payment_status       *)
(* 'completed' (none is pending or cancelled).                             *)
C19_OnlyCompletedCounted ==
    \A c \in DOMAIN campaigns :
        campaigns[c].raised_amount >= SumAmounts(donations, c) =>
            \A i \in 1..Len(donations) :
                donations[i].campaign_id = Some(c) =>
                    donations[i].payment_status = "completed"

----------------------------------------------------------------------------
(* C20: a MatchingGift record is created only for a donation that, at the  *)
(* time of create_matching_gift, has matching_gift_eligible = true and     *)
(* payment_status 'completed'; for any other donation the request fails    *)
(* and no MatchingGift and no donation field is changed.                   *)
C20_GiftOnlyForCompleted ==
    [][/\ \A i \in (Len(matching_gifts) + 1)..Len(matching_gifts') :
             LET d == donations[matching_gifts'[i].donation_id]
             IN  /\ d.matching_gift_eligible
                 /\ d.payment_status = "completed"
       /\ \A p \in Procs :
             (req[p].pc = "idle" /\ req'[p].pc = "mg_commit") =>
                 /\ donations[req'[p].did].matching_gift_eligible
                 /\ donations[req'[p].did].payment_status = "completed"
       /\ (req' = req /\ resp'.op = "create_matching_gift") =>
             /\ resp'.code >= 400
             /\ UNCHANGED <<donations, matching_gifts>>]_vars

----------------------------------------------------------------------------
(* C21: a successful create_matching_gift creates a MatchingGift with      *)
(* status 'pending' and match_amount = donation.amount x match_ratio (the  *)
(* supplied ratio, or 1.0 when none is supplied), sets the donation's      *)
(* matching_gift_status to 'submitted' and its matching_gift_amount to     *)
(* that amount, and leaves the donation's amount and payment_status and    *)
(* all campaign totals unchanged.                                          *)
C21_GiftCreated ==
    [][\A p \in Procs :
          (req[p].pc = "mg_commit" /\ resp'.op = "create_matching_gift"
             /\ resp'.code = 201) =>
              LET did == req[p].did
                  supplied == Val(req[p].data).match_ratio
                  ratio == IF supplied = 0 THEN 100 ELSE supplied
                  g == matching_gifts'[Len(matching_gifts')]
              IN  /\ Len(matching_gifts') = Len(matching_gifts) + 1
                  /\ SubSeq(matching_gifts', 1, Len(matching_gifts)) = matching_gifts
                  /\ g.donation_id = did
                  /\ g.status = "pending"
                  /\ 100 * g.match_amount = donations[did].amount * ratio
                  /\ donations' = [donations EXCEPT
                        ![did].matching_gift_status = Some("submitted"),
                        ![did].matching_gift_amount = Some(g.match_amount)]
                  /\ campaigns' = campaigns]_vars

C21_Witness ==
    /\ resp.op = "create_matching_gift" /\ resp.code = 201
    /\ \E i \in 1..Len(matching_gifts) :
         /\ matching_gifts[i].match_ratio = 50
         /\ matching_gifts[i].match_amount = 2500
         /\ donations[matching_gifts[i].donation_id].amount = 5000
         /\ donations[matching_gifts[i].donation_id].matching_gift_amount = Some(2500)

----------------------------------------------------------------------------
(* C22: each donation is linked to at most one MatchingGift record, and    *)
(* the donation's matching_gift_amount equals the match_amount of that     *)
(* single gift.                                                            *)
C22_OneGiftPerDonation ==
    /\ \A i, j \in 1..Len(matching_gifts) :
          matching_gifts[i].donation_id = matching_gifts[j].donation_id => i = j
    /\ \A i \in 1..Len(matching_gifts) :
          donations[matching_gifts[i].donation_id].matching_gift_amount =
              Some(matching_gifts[i].match_amount)

----------------------------------------------------------------------------
(* C23: calculate_progress_percentage returns 0 when goal_amount is null   *)
(* or 0 and min(100, raised_amount / goal_amount x 100) otherwise; for     *)
(* every campaign state the handlers can produce, with any goal_amount     *)
(* that create_campaign or update_campaign accepts, the result lies in     *)
(* [0, 100].                                                               *)
C23_ProgressInRange ==
    \A c \in DOMAIN campaigns :
        /\ calculate_progress_percentage(campaigns[c]) >= 0
        /\ calculate_progress_percentage(campaigns[c]) <= 100 * 100
        /\ (campaigns[c].goal_amount = Null) =>
              calculate_progress_percentage(campaigns[c]) = 0

----------------------------------------------------------------------------
(* C24: create_bulk_donations is all-or-nothing with respect to            *)
(* validation: when any item of the batch lacks user_id, organization_id   *)
(* or amount, the request answers an error and no donation of the batch    *)
(* is persisted, the items that precede the invalid one and were already   *)
(* added to the session included.                                          *)
C24_BulkAllOrNothing ==
    [][/\ \A p \in Procs :
             req'[p].pc = "bk_commit" =>
                 \A i \in 1..Len(Val(req'[p].data)) :
                     ~BulkItemIncomplete(Val(req'[p].data)[i])
       /\ \A p \in Procs :
             (req[p].pc = "bk_invalid" /\ req'[p] # req[p]) =>
                 /\ resp'.op = "create_bulk_donations"
                 /\ resp'.code = 400
       /\ (resp'.op = "create_bulk_donations" /\ resp'.code = 400) =>
             donations' = donations]_vars

C24_Witness ==
    /\ resp.op = "create_bulk_donations"
    /\ resp.code = 400
    /\ resp.id = "amount"
    /\ nreq > 0
    /\ donations = <<>>

----------------------------------------------------------------------------
(* C25: an update_campaign request that fails date validation (a           *)
(* start_date or end_date that does not parse) answers an error and leaves *)
(* the persisted campaign unchanged, even when other, valid fields of the  *)
(* body were assigned to the loaded campaign before the date check.        *)
C25_FailedDateLeavesCampaign ==
    [][/\ \A p \in Procs :
             req'[p].pc = "uc_commit" =>
                 \A f \in {"start_date", "end_date"} \cap DOMAIN Val(req'[p].data) :
                     Val(req'[p].data)[f].k # "bad"
       /\ \A p \in Procs :
             (req[p].pc = "uc_invalid" /\ req'[p] # req[p]) =>
                 /\ Val(req[p].obj) # Val(req[p].loaded)
                 /\ resp' = [op |-> "update_campaign", id |-> req[p].cid, code |-> 400]
       /\ (resp'.op = "update_campaign" /\ resp'.code = 400) =>
             campaigns' = campaigns]_vars

C25_Witness ==
    /\ resp.op = "update_campaign"
    /\ resp.code = 400
    /\ resp.id \in DOMAIN campaigns
    /\ campaigns[resp.id].status # "cancelled"
    /\ campaigns[resp.id].goal_amount # Some(5000)

----------------------------------------------------------------------------
(* C27: referential integrity of campaign links: every donation with a     *)
(* non-null campaign_id refers to a campaign that exists.  delete_campaign *)
(* refuses while donations of the campaign exist, create_donation never    *)
(* persists a donation whose campaign_id matches no campaign, and no       *)
(* interleaving of delete_campaign with a concurrent donation leaves a     *)
(* donation that points to a deleted campaign.                             *)
C27_NoDanglingDonation ==
    \A i \in 1..Len(donations) :
        donations[i].campaign_id # Null =>
            Val(donations[i].campaign_id) \in DOMAIN campaigns

----------------------------------------------------------------------------
(* C28: only the creator of a campaign can modify or remove it through     *)
(* update_campaign, delete_campaign or add_campaign_update: a request by   *)
(* any other user is answered 'not found or access denied' and leaves the  *)
(* campaign unchanged; and no update_campaign request, whatever its body,  *)
(* changes raised_amount, creator_id or organization_id.                   *)
C28_ManagePcs == {"uc_commit", "uc_invalid", "del_commit", "au_commit"}

C28_CreatorOnly ==
    [][/\ \A p \in Procs :
             (req[p].pc = "idle" /\ req'[p].pc \in C28_ManagePcs) =>
                 campaigns[req'[p].cid].creator_id = req'[p].user
       /\ \A p \in Procs :
             (req[p].pc \in C28_ManagePcs /\ req'[p].pc = "idle"
                /\ campaigns' # campaigns) =>
                 /\ req[p].cid \in DOMAIN campaigns
                 /\ req[p].user = campaigns[req[p].cid].creator_id
                 /\ \A c \in DOMAIN campaigns \ {req[p].cid} :
                       c \in DOMAIN campaigns' /\ campaigns'[c] = campaigns[c]
       /\ (resp'.op \in {"update_campaign", "delete_campaign", "add_campaign_update"}
             /\ resp'.code = 404) =>
               UNCHANGED <<campaigns, deleted, donations>>
       /\ \A p \in Procs :
             (req[p].pc = "uc_commit" /\ req'[p].pc = "idle") =>
                 \A c \in DOMAIN campaigns :
                     /\ c \in DOMAIN campaigns'
                     /\ campaigns'[c].raised_amount = campaigns[c].raised_amount
                     /\ campaigns'[c].creator_id = campaigns[c].creator_id
                     /\ campaigns'[c].organization_id = campaigns[c].organization_id]_vars

C28_Witness ==
    /\ resp.op \in {"update_campaign", "delete_campaign", "add_campaign_update"}
    /\ resp.code = 404
    /\ resp.id \in DOMAIN campaigns
    /\ campaigns[resp.id].creator_id = "u1"

----------------------------------------------------------------------------
(* C26: sequential ledger consistency: after any sequence of               *)
(* create_campaign, create_donation, donate_to_campaign,                   *)
(* create_bulk_donations, update_campaign and delete_campaign requests,    *)
(* each run to completion before the next begins, every campaign's         *)
(* raised_amount equals the sum of the amounts of the donations whose      *)
(* campaign_id is that campaign.                                           *)
C26_Linked(c) == {i \in 1..Len(donations) : donations[i].campaign_id = Some(c)}

RECURSIVE C26_Sum(_)
C26_Sum(rows) ==
    IF rows = {}
    THEN 0
    ELSE LET i == CHOOSE j \in rows : TRUE
         IN  donations[i].amount + C26_Sum(rows \ {i})

----------------------------------------------------------------------------
----------------------------------------------------------------------------
(* C30: each user has at most one default payment method after any         *)
(* sequence or interleaving of add_payment_method and                      *)
(* delete_payment_method requests: adding a method with is_default set     *)
(* clears the flag on all other methods of that user and leaves the        *)
(* methods of other users unchanged.                                       *)
C30_Defaults(u) ==
    {i \in 1..Len(payment_methods) :
        payment_methods[i].user_id = u /\ payment_methods[i].is_default}

====
